---- MODULE Spec2Model ----
(***************************************************************************)
(* HuggingFaceHandler (mindsdb/integrations/handlers/huggingface_handler): *)
(* create_validation, create, predict and describe, over the host's        *)
(* model_storage / engine_storage and the external hub and pipelines.      *)
(*                                                                         *)
(* A Python dict is a function from its keys (strings) to values; the      *)
(* order of a dict's keys is not modelled.  An exception is a record       *)
(* [type, msg, keys]: the class, the message template, and the names the   *)
(* template is filled with.                                                *)
(***************************************************************************)
EXTENDS Integers, Sequences, FiniteSets, TLC

VARIABLES
    model_storage,  \* model_storage's json files: key "args" absent, or the args
    engine_folder,  \* engine_storage: model names whose folder holds a saved pipeline
    synced,         \* engine_storage: model names whose folder was folder_sync'ed
    call,           \* the last call of the handler (or the one about to be made) and its inputs
    ret             \* its outcome: what it raised or returned, and the external calls it made

vars == <<model_storage, engine_folder, synced, call, ret>>

----------------------------------------------------------------------------
(* Bounds *)

\* the longest input column handed to predict
MaxRows == 2

----------------------------------------------------------------------------
(* Python values *)

NoKeys == {}
None == [status |-> "none", type |-> "", msg |-> "", keys |-> NoKeys]
Returned == [status |-> "ok", type |-> "", msg |-> "", keys |-> NoKeys]
Raise(type, msg, keys) == [status |-> "raise", type |-> type, msg |-> msg, keys |-> keys]

EmptyDict == [k \in {} |-> ""]

\* d with d[k] = v  (dict item assignment)
SetItem(d, k, v) == [x \in (DOMAIN d) \cup {k} |-> IF x = k THEN v ELSE d[x]]

\* {**a, **b}
Merge(a, b) == [x \in (DOMAIN a) \cup (DOMAIN b) |-> IF x \in DOMAIN b THEN b[x] ELSE a[x]]

----------------------------------------------------------------------------
(* The model hub and the pipelines, as seen through the calls the handler  *)
(* makes: HfApi().model_info(name) and pipeline.model.config.              *)

HubModels == {"m-cls", "m-zs", "m-tr", "m-sum", "m-t2t", "m-mask", "m-tf", "m-img"}

\* model_info raises for a name the hub does not know
OnHub(name) == name \in HubModels

\* metadata.tags contains 'pytorch'
HubPytorch(name) == name # "m-tf"

\* metadata.pipeline_tag
HubPipelineTag(name) ==
    CASE name = "m-cls"  -> "text-classification"
      [] name = "m-tf"   -> "text-classification"
      [] name = "m-zs"   -> "zero-shot-classification"
      [] name = "m-tr"   -> "translation"
      [] name = "m-sum"  -> "summarization"
      [] name = "m-t2t"  -> "text2text-generation"
      [] name = "m-mask" -> "fill-mask"
      [] OTHER           -> "image-classification"

----------------------------------------------------------------------------
(* create_validation *)

supported_tasks == {"text-classification", "zero-shot-classification", "translation",
                    "summarization", "text2text-generation", "fill-mask"}

essential_keys == <<"task", "model_name", "input_column">>

optional_keys == {"labels", "max_length", "truncation_policy"}

\* the keys the task-specific blocks require, in the order they are tested
TaskKeys(task) ==
    CASE task = "zero-shot-classification" -> <<"candidate_labels">>
      [] task = "translation"              -> <<"lang_input", "lang_output">>
      [] task = "summarization"            -> <<"min_output_length", "max_output_length">>
      [] OTHER                             -> <<>>

\* the message of the task-specific block's exception
TaskKeyMsg(task) ==
    CASE task = "zero-shot-classification" -> "\"candidate_labels\" is required for zero-shot-classification"
      [] OTHER                             -> "{key} is required for translation"

\* if 'using' in args: args = args['using']
Unwrap(args) == IF "using" \in DOMAIN args THEN args["using"] ELSE args

Range(s) == {s[i] : i \in DOMAIN s}

\* the first key of the sequence ks that d lacks (ks has one)
FirstMissing(ks, d) ==
    ks[CHOOSE i \in DOMAIN ks : ks[i] \notin DOMAIN d /\ \A j \in 1..(i-1) : ks[j] \in DOMAIN d]

\* (a faulty variant: the mismatch test dropped)
TaskMismatch_Dropped(args) == FALSE

\* elif args['task'] != metadata.pipeline_tag
TaskMismatch(args) ==
    "task" \in DOMAIN args /\ args["task"] # HubPipelineTag(args["model_name"])

\* if 'task' not in args: args['task'] = metadata.pipeline_tag
FillTask(args) ==
    IF "task" \notin DOMAIN args THEN SetItem(args, "task", HubPipelineTag(args["model_name"]))
    ELSE args

\* (a faulty variant: the keys of every task removed, not only those of the args' task)
Leftover_AnyTask(args) ==
    (((DOMAIN args) \ Range(essential_keys))
        \ {"candidate_labels", "lang_input", "lang_output", "min_output_length",
           "max_output_length"}) \ optional_keys

\* input_keys when the final check is reached
Leftover(args) ==
    (((DOMAIN args) \ Range(essential_keys)) \ Range(TaskKeys(args["task"]))) \ optional_keys

\* The outcome of create_validation(target, args): [out, args], the args being
\* the caller's dict as the call leaves it.
create_validation(raw) ==
    LET args == Unwrap(raw) IN
    IF "model_name" \notin DOMAIN args
      THEN [out |-> Raise("KeyError", "model_name", NoKeys), args |-> args]
    ELSE IF ~OnHub(args["model_name"])
      THEN [out |-> Raise("RepositoryNotFoundError", "", NoKeys), args |-> args]
    ELSE IF ~HubPytorch(args["model_name"])
      THEN [out |-> Raise("Exception", "Currently only PyTorch models are supported", NoKeys),
            args |-> args]
    ELSE IF HubPipelineTag(args["model_name"]) \notin supported_tasks
      THEN [out |-> Raise("Exception", "Not supported task for model",
                          {HubPipelineTag(args["model_name"])}),
            args |-> args]
    ELSE IF TaskMismatch(args)
      THEN [out |-> Raise("Exception", "Task mismatch for model", NoKeys), args |-> args]
    ELSE
      LET a == FillTask(args) IN
      IF \E k \in Range(essential_keys) : k \notin DOMAIN a
        THEN [out |-> Raise("Exception", "Parameter \"{key}\" is required",
                            {FirstMissing(essential_keys, a)}),
              args |-> a]
      ELSE IF \E k \in Range(TaskKeys(a["task"])) : k \notin DOMAIN a
        THEN [out |-> Raise("Exception", TaskKeyMsg(a["task"]),
                            {FirstMissing(TaskKeys(a["task"]), a)}),
              args |-> a]
      ELSE IF Leftover(a) # {}
        THEN [out |-> Raise("Exception", "Not expected parameters", Leftover(a)), args |-> a]
      ELSE [out |-> Returned, args |-> a]

----------------------------------------------------------------------------
(* Inputs of create_validation *)

NoValue == "<absent>"

UserTasks == supported_tasks \cup {"question-answering"}

UserModels == HubModels \cup {"m-gone"}

PlainKeys == {"input_column", "candidate_labels", "lang_input", "lang_output",
              "min_output_length", "max_output_length",
              "labels", "max_length", "truncation_policy", "top_k"}

UserLabels == <<"neg", "pos">>

\* the value the generated args carry under key k
ValueOf(k, task, model) ==
    CASE k = "task"       -> task
      [] k = "model_name" -> model
      [] k = "labels"     -> UserLabels
      [] k = "max_length" -> 16
      [] k = "min_output_length" -> 1
      [] k = "max_output_length" -> 8
      [] k = "candidate_labels" -> <<"sport", "news">>
      [] k = "input_column" -> "text"
      [] OTHER -> k

MkArgs(K, task, model) ==
    [k \in K \cup (IF task = NoValue THEN {} ELSE {"task"})
               \cup (IF model = NoValue THEN {} ELSE {"model_name"})
       |-> ValueOf(k, task, model)]

AllArgs ==
    {MkArgs(K, t, m) : K \in SUBSET PlainKeys, t \in UserTasks \cup {NoValue},
                       m \in UserModels \cup {NoValue}}

\* what the host passes: the user's USING dict, bare or under 'using'
WrappedArgs ==
    {[using |-> MkArgs(K, t, m), target |-> "sentiment"] :
        K \in SUBSET {"input_column", "labels", "top_k"},
        t \in UserTasks \cup {NoValue}, m \in UserModels \cup {NoValue}}

ValidationInputs == AllArgs \cup WrappedArgs

----------------------------------------------------------------------------
(* Calls and outcomes *)

NoRows == <<>>
NoTrace == <<>>
NoItems == <<>>
NoTable == {}
NoColumns == {}

Call(op, args, target, columns, items, attribute, env) ==
    [op |-> op, args |-> args, target |-> target, columns |-> columns, items |-> items,
     attribute |-> attribute, env |-> env]

\* the outcomes of the external calls a handler call makes
Env(local, download, save, batch, e) ==
    [local |-> local, download |-> download, save |-> save, batch |-> batch, e |-> e]

NoException == [type |-> "", text |-> <<>>]

NoEnv == Env("", "", "", "", NoException)

\* out: raised or returned; args: the args dict the call worked on, as it leaves it;
\* rows: predict's frame; table: describe's frame; trace: the external calls of create
Ret(out, args, rows, table, trace) ==
    [out |-> out, args |-> args, rows |-> rows, table |-> table, trace |-> trace]

NotYet == Ret(None, EmptyDict, NoRows, NoTable, NoTrace)

----------------------------------------------------------------------------
(* create *)

\* pipeline.model.config.id2label, ids 0..n-1, as the sequence of label names
Id2Label(model) ==
    CASE model = "m-cls" -> <<"NEGATIVE", "POSITIVE">>
      [] model = "m-t2t" -> <<"LABEL_0", "LABEL_1", "LABEL_2">>
      [] OTHER           -> <<"LABEL_0", "LABEL_1">>

\* the keys of pipeline.model.config.to_dict() that create looks for
ConfigKeys(model) ==
    CASE model = "m-cls" -> {"max_position_embeddings"}
      [] model = "m-tr"  -> {"max_length"}
      [] model = "m-zs"  -> {"max_position_embeddings", "max_length"}
      [] OTHER           -> {}

\* pipeline.model.config.max_position_embeddings and .max_length
ConfigValue(model, key) == IF key = "max_position_embeddings" THEN 512 ELSE 20

\* f"translation_{lang_input}_to_{lang_output}", or the task itself
TaskProper(args) ==
    IF args["task"] = "translation"
    THEN "translation_" \o args["lang_input"] \o "_to_" \o args["lang_output"]
    ELSE args["task"]

\* the max_length branch of create
WithMaxLength(args) ==
    IF "max_length" \in DOMAIN args THEN args
    ELSE IF "max_position_embeddings" \in ConfigKeys(args["model_name"])
      THEN SetItem(args, "max_length", ConfigValue(args["model_name"], "max_position_embeddings"))
    ELSE IF "max_length" \in ConfigKeys(args["model_name"])
      THEN SetItem(args, "max_length", ConfigValue(args["model_name"], "max_length"))
    ELSE args

\* the ids for which args['labels'][num] raises IndexError (a Python list is indexed from 0)
LabelsTooShort(args) ==
    "labels" \in DOMAIN args /\ Len(args["labels"]) < Len(Id2Label(args["model_name"]))

\* labels_map as the two loops of create build it
LabelsMap(args) ==
    LET default == Id2Label(args["model_name"]) IN
    [name \in Range(default) |->
        LET num == CHOOSE n \in DOMAIN default :
                       default[n] = name /\ \A m \in DOMAIN default : default[m] = name => m <= n
        IN IF "labels" \in DOMAIN args THEN args["labels"][num] ELSE default[num]]

DownloadError ==
    Raise("Exception", "Error while downloading and setting up the model", NoKeys)

\* the external calls of the try / except OSError block, in order
Fetch(local, download) ==
    IF local = "OSError"
    THEN <<"folder_get", "pipeline_local", "pipeline_download">>
             \o (IF download = "ok" THEN <<"save_pretrained">> ELSE <<>>)
    ELSE <<"folder_get", "pipeline_local">>

\* (a faulty variant: the folder synced before the args are written)
Persist_SyncFirst(trace) == trace \o <<"folder_sync", "json_set">>

\* model_storage.json_set('args', args), then engine_storage.folder_sync(model_name)
Persist(trace) == trace \o <<"json_set", "folder_sync">>

\* The outcome of create(target, args) on validated args, with the engine folder
\* `folder` and the outcomes of the three external pipeline calls:
\*   local:    "ok" | "OSError" | "error"   pipeline(model=path) from the folder
\*   download: "ok" | "error"               pipeline(model=model_name)
\*   save:     "ok" | "error"               pipeline.save_pretrained(path)
\* [out, args, trace, saved]: what it raised or returned, the args dict as it
\* leaves it, the external calls in order, and whether the folder was written.
create(raw, target, local, download, save) ==
    LET a0 == Unwrap(raw)
        a1 == SetItem(a0, "target", target)
        a2 == SetItem(a1, "task_proper", TaskProper(a1))
        t0 == <<"folder_get", "pipeline_local">>
        t1 == Fetch(local, download)
        saved == local = "OSError" /\ download = "ok" /\ save = "ok"
        a3 == WithMaxLength(a2)
        a4 == SetItem(a3, "labels_map", LabelsMap(a3))
    IN
    IF local = "error"
      THEN [out |-> Raise("ValueError", "pipeline", NoKeys), args |-> a2, trace |-> t0,
            saved |-> FALSE]
    ELSE IF local = "OSError" /\ (download # "ok" \/ save # "ok")
      THEN [out |-> DownloadError, args |-> a2, trace |-> t1, saved |-> FALSE]
    ELSE IF LabelsTooShort(a3)
      THEN [out |-> Raise("IndexError", "list index out of range", NoKeys), args |-> a3,
            trace |-> t1, saved |-> saved]
    ELSE [out |-> Returned, args |-> a4, trace |-> Persist(t1), saved |-> saved]

----------------------------------------------------------------------------
(* predict *)

fnc_list == {"text-classification", "zero-shot-classification", "translation",
             "summarization", "fill-mask"}

\* str.strip() on a message given as its sequence of tokens, " " being whitespace
RECURSIVE LStrip(_)
LStrip(s) == IF s # <<>> /\ Head(s) = " " THEN LStrip(Tail(s)) ELSE s

RECURSIVE RStrip(_)
RStrip(s) == IF s # <<>> /\ s[Len(s)] = " " THEN RStrip(SubSeq(s, 1, Len(s) - 1)) ELSE s

Strip(s) == RStrip(LStrip(s))

\* msg = str(e).strip(); if msg == '': msg = e.__class__.__name__
ErrorMsg(e) == IF Strip(e.text) = <<>> THEN <<e.type>> ELSE Strip(e.text)

\* {'error': msg}
ErrorEntry(e) == [error |-> ErrorMsg(e)]

\* the labels of the classification pipeline for an item, best score first
Ranked(model, item) ==
    LET default == Id2Label(model) IN
    IF item = "good" THEN [i \in DOMAIN default |-> default[Len(default) + 1 - i]] ELSE default

\* what pipeline(data, ...) holds for one item of data
RawOutput(args, item) ==
    IF args["task"] = "text-classification"
    THEN [label |-> Ranked(args["model_name"], item)[1], score |-> 1]
    ELSE [generated_text |-> item]

\* predict_text_classification: final[target] and final[target_explain]
\* (the score of the label ranked i-th is Len(result) - i)
predict_text_classification(item, args) ==
    LET result == Ranked(args["model_name"], item)
        map == args["labels_map"]
        explain == [l \in {map[result[i]] : i \in DOMAIN result} |->
                       LET last == CHOOSE i \in DOMAIN result :
                                       map[result[i]] = l
                                       /\ \A j \in DOMAIN result : map[result[j]] = l => j <= i
                       IN Len(result) - last]
    IN [k \in {args["target"], args["target"] \o "_explain"} |->
           IF k = args["target"] THEN map[result[1]] ELSE explain]

\* evaluating the name fnc in predict: no assignment binds it
FncLookup == [type |-> "NameError", text |-> <<"name 'fnc' is not defined">>]

\* The loop of the batch_size <= 1 branch.  Every iteration: the call of fnc
\* raises FncLookup, result is the error entry (a dict), and result[0] outside
\* the try raises KeyError(0).
\* (Key0 stands for the integer 0 among the keys of a dict.)
Key0 == "<int 0>"

RECURSIVE PerRow(_, _)
PerRow(items, results) ==
    IF items = <<>> THEN [out |-> Returned, rows |-> results]
    ELSE LET result == ErrorEntry(FncLookup) IN
         IF Key0 \notin DOMAIN result
           THEN [out |-> Raise("KeyError", Key0, NoKeys), rows |-> NoRows]
           ELSE PerRow(Tail(items), Append(results, result[Key0]))

\* The batch_size > 1 branch; batch is the outcome of pipeline(data, *args, ...):
\* "ok", or "error" with the exception e.
Batched(args, items, batch, e) ==
    IF batch = "ok"
    THEN [out |-> Returned, rows |-> [i \in DOMAIN items |-> RawOutput(args, items[i])]]
    ELSE [out |-> Returned, rows |-> [i \in DOMAIN items |-> ErrorEntry(e)]]

\* args.get('batch_size', 1)
BatchSize(args) == IF "batch_size" \in DOMAIN args THEN args["batch_size"] ELSE 1

\* The outcome of predict(df, args): df has the columns `columns` and its
\* input column holds `items`; params is args.get('predict_params', {}).
\* [out, rows, args]: raised or returned, the frame's rows, and the merged args.
predict(stored, params, columns, items, batch, e) ==
    LET args == Merge(stored, params)
        r == IF args["task"] \notin fnc_list
               THEN [out |-> Raise("RuntimeError", "Unknown task", {args["task"]}),
                     rows |-> NoRows]
             ELSE IF args["input_column"] \notin columns
               THEN [out |-> Raise("RuntimeError", "Column not found in input data",
                                   {args["input_column"]}),
                     rows |-> NoRows]
             ELSE IF BatchSize(args) > 1 THEN Batched(args, items, batch, e)
             ELSE PerRow(items, <<>>)
    IN [out |-> r.out, rows |-> r.rows, args |-> args]

----------------------------------------------------------------------------
(* describe *)

tables == <<"args", "metadata">>

\* metadata.__dict__.items() of the hub's model_info
HubMetadata(name) ==
    {<<"pipeline_tag", HubPipelineTag(name)>>, <<"pytorch", HubPytorch(name)>>}

\* args.items(): the (key, value) rows of the frame
Items(d) == {<<k, d[k]>> : k \in DOMAIN d}

\* (a faulty variant: the args frame built from the keys only the user gave)
describe_UserKeys(stored, attribute) ==
    IF attribute = "args"
      THEN {<<k, stored[k]>> : k \in (DOMAIN stored) \ {"target", "task_proper", "labels_map"}}
    ELSE IF attribute = "metadata" THEN HubMetadata(stored["model_name"])
    ELSE {<<"tables", tables[i]>> : i \in DOMAIN tables}

\* The rows describe(attribute) returns
describe(stored, attribute) ==
    IF attribute = "args" THEN Items(stored)
    ELSE IF attribute = "metadata" THEN HubMetadata(stored["model_name"])
    ELSE {<<"tables", tables[i]>> : i \in DOMAIN tables}

----------------------------------------------------------------------------
(* The handler's life: the host validates the USING args, creates the model *)
(* from the args that passed (once per model storage), then predicts and   *)
(* describes.  The engine storage is shared with the engine's other        *)
(* models, one of which may have saved and synced a pipeline already.      *)

EarlierFolders == {{}, {"m-cls"}}

Init ==
    /\ model_storage = EmptyDict
    /\ engine_folder \in EarlierFolders
    /\ synced = engine_folder
    /\ call = Call("none", EmptyDict, "", NoColumns, NoItems, "", NoEnv)
    /\ ret = NotYet

\* the USING args the host validates in the handler's life
LifeModels == {"m-cls", "m-tr", "m-t2t", "m-tf"}

LifeKeys(model) ==
    {"input_column"} \cup Range(TaskKeys(HubPipelineTag(model)))

LifeArgs ==
    UNION {{MkArgs(LifeKeys(m) \cup K, t, m) :
               K \in SUBSET {"labels", "max_length"}, t \in {NoValue, HubPipelineTag(m)}} :
           m \in LifeModels}
    \cup {[using |-> MkArgs(LifeKeys("m-cls"), NoValue, "m-cls"), target |-> "sentiment"],
          MkArgs(LifeKeys("m-cls") \cup {"top_k"}, NoValue, "m-cls")}

CreateValidation ==
    \E raw \in LifeArgs :
        LET v == create_validation(raw) IN
        /\ call' = Call("create_validation", raw, "sentiment", NoColumns, NoItems, "", NoEnv)
        /\ ret' = Ret(v.out, v.args, NoRows, NoTable, NoTrace)
        /\ UNCHANGED <<model_storage, engine_folder, synced>>

\* create is handed the dict create_validation was handed, as that call left it
Validated ==
    IF "using" \in DOMAIN call.args THEN [call.args EXCEPT !["using"] = ret.args] ELSE ret.args

\* The host calls create after a create_validation that returned, on a model
\* storage that holds no args yet.
Create ==
    /\ call.op = "create_validation"
    /\ ret.out.status = "ok"
    /\ "args" \notin DOMAIN model_storage
    /\ \E local \in {"ok", "OSError", "error"}, download \in {"ok", "error"},
          save \in {"ok", "error"} :
        LET model == ret.args["model_name"]
            r == create(Validated, call.target, local, download, save)
        IN
        \* the folder holds a pipeline only once one was saved to it
        /\ local = "ok" => model \in engine_folder
        /\ local # "OSError" => download = "ok"
        /\ download # "ok" \/ local # "OSError" => save = "ok"
        /\ call' = Call("create", Validated, call.target, NoColumns, NoItems, "",
                        Env(local, download, save, "", NoException))
        /\ ret' = Ret(r.out, r.args, NoRows, NoTable, r.trace)
        /\ engine_folder' = IF r.saved THEN engine_folder \cup {model} ELSE engine_folder
        /\ model_storage' = IF "json_set" \in Range(r.trace)
                            THEN SetItem(model_storage, "args", r.args) ELSE model_storage
        /\ synced' = IF "folder_sync" \in Range(r.trace) THEN synced \cup {model} ELSE synced

RECURSIVE SeqsUpTo(_, _)
SeqsUpTo(S, n) ==
    IF n = 0 THEN {<<>>}
    ELSE SeqsUpTo(S, n - 1) \cup {Append(s, x) : s \in SeqsUpTo(S, n - 1), x \in S}

InputItems == {"good", "bad"}

PredictParams == {EmptyDict, [batch_size |-> 1], [batch_size |-> 2]}

BatchErrors ==
    {[type |-> "RuntimeError", text |-> t] : t \in {<<>>, <<" ", " ">>, <<" ", "out of memory", " ">>}}

\* (a faulty variant: the merged args written back to model storage)
Predict_WritesBack ==
    /\ "args" \in DOMAIN model_storage
    /\ \E params \in PredictParams, columns \in {{"text"}, {"other"}},
          items \in SeqsUpTo(InputItems, MaxRows) :
        LET r == predict(model_storage["args"], params, columns, items, "ok", NoException) IN
        /\ call' = Call("predict", params, "", columns, items, "",
                        Env("", "", "", "ok", NoException))
        /\ ret' = Ret(r.out, r.args, r.rows, NoTable, NoTrace)
        /\ model_storage' = SetItem(model_storage, "args", r.args)
        /\ UNCHANGED <<engine_folder, synced>>

\* The host calls predict on a created model.  The outcome of the batched
\* pipeline call (batch, e) is drawn only where predict makes that call.
Predict ==
    /\ "args" \in DOMAIN model_storage
    /\ \E params \in PredictParams, columns \in {{"text"}, {"other"}},
          items \in SeqsUpTo(InputItems, MaxRows), batch \in {"ok", "error"},
          e \in BatchErrors \cup {NoException} :
        LET r == predict(model_storage["args"], params, columns, items, batch, e) IN
        /\ (batch = "error") = (e # NoException)
        /\ batch = "error" => BatchSize(r.args) > 1 /\ r.out.status = "ok"
        /\ call' = Call("predict", params, "", columns, items, "",
                        Env("", "", "", batch, e))
        /\ ret' = Ret(r.out, r.args, r.rows, NoTable, NoTrace)
        /\ UNCHANGED <<model_storage, engine_folder, synced>>

Describe ==
    /\ "args" \in DOMAIN model_storage
    /\ \E attribute \in {"args", "metadata", "tables", NoValue} :
        /\ call' = Call("describe", EmptyDict, "", NoColumns, NoItems, attribute, NoEnv)
        /\ ret' = Ret(Returned, model_storage["args"], NoRows,
                      describe(model_storage["args"], attribute), NoTrace)
        /\ UNCHANGED <<model_storage, engine_folder, synced>>

Next == CreateValidation \/ Create \/ Predict \/ Describe

Spec == Init /\ [][Next]_vars

----------------------------------------------------------------------------
(* create_validation alone, over every args dict of ValidationInputs *)

InitV ==
    /\ model_storage = EmptyDict
    /\ engine_folder = {}
    /\ synced = {}
    /\ call \in {Call("create_validation", raw, "sentiment", NoColumns, NoItems, "", NoEnv) :
                    raw \in ValidationInputs}
    /\ ret = NotYet

ValidateDrawn ==
    /\ call.op = "create_validation"
    /\ ret = NotYet
    /\ LET v == create_validation(call.args) IN ret' = Ret(v.out, v.args, NoRows, NoTable, NoTrace)
    /\ UNCHANGED <<model_storage, engine_folder, synced, call>>

NextV == ValidateDrawn

SpecV == InitV /\ [][NextV]_vars

----------------------------------------------------------------------------
(* Claims about create_validation (specification SpecV) *)

ValidationDone == call.op = "create_validation" /\ ret.out.status # "none"

\* the args dict the call validates
GivenArgs == Unwrap(call.args)

SixTasks == {"text-classification", "zero-shot-classification", "translation",
             "summarization", "text2text-generation", "fill-mask"}

\* the task of the args: the one given, else the model's pipeline tag when the hub knows it
ResolvedTask ==
    IF "task" \in DOMAIN GivenArgs THEN GivenArgs["task"]
    ELSE IF "model_name" \in DOMAIN GivenArgs /\ OnHub(GivenArgs["model_name"])
      THEN HubPipelineTag(GivenArgs["model_name"])
    ELSE NoValue

RequiredBy(task) ==
    CASE task = "zero-shot-classification" -> {"candidate_labels"}
      [] task = "translation"              -> {"lang_input", "lang_output"}
      [] task = "summarization"            -> {"min_output_length", "max_output_length"}
      [] OTHER                             -> {}

AllowedKeys ==
    {"task", "model_name", "input_column"} \cup RequiredBy(ResolvedTask)
        \cup {"labels", "max_length", "truncation_policy"}

\* the hub checks and the task check pass
HubChecksPass ==
    /\ "model_name" \in DOMAIN GivenArgs
    /\ OnHub(GivenArgs["model_name"])
    /\ HubPytorch(GivenArgs["model_name"])
    /\ HubPipelineTag(GivenArgs["model_name"]) \in SixTasks
    /\ "task" \in DOMAIN GivenArgs => GivenArgs["task"] = HubPipelineTag(GivenArgs["model_name"])

\* ... and no required key is missing
EarlierChecksPass ==
    /\ HubChecksPass
    /\ "input_column" \in DOMAIN GivenArgs
    /\ RequiredBy(ResolvedTask) \subseteq DOMAIN GivenArgs

NotExpected(keys) == Raise("Exception", "Not expected parameters", keys)

\* C5 as stated: create_validation succeeds only if every key of the args is an
\* essential key, a key the resolved task requires or an optional key; any other
\* key makes it fail with 'Not expected parameters' listing exactly the leftover keys.
\* (Stated for the args whose model passes the hub checks and the task check.)
C5_AsStated ==
    (ValidationDone /\ HubChecksPass) =>
        /\ ret.out.status = "ok" => (DOMAIN GivenArgs) \subseteq AllowedKeys
        /\ ~((DOMAIN GivenArgs) \subseteq AllowedKeys)
             => ret.out = NotExpected((DOMAIN GivenArgs) \ AllowedKeys)

\* C5 amended: create_validation succeeds only if every key is allowed; any other
\* key makes it fail, and when the hub checks, the task check and the required-key
\* checks pass the failure is 'Not expected parameters' listing exactly the
\* leftover keys (an earlier failing check raises its own error instead).
C5_UnexpectedKeys ==
    ValidationDone =>
        /\ ret.out.status = "ok" => (DOMAIN GivenArgs) \subseteq AllowedKeys
        /\ ~((DOMAIN GivenArgs) \subseteq AllowedKeys) =>
              /\ ret.out.status = "raise"
              /\ EarlierChecksPass => ret.out = NotExpected((DOMAIN GivenArgs) \ AllowedKeys)

\* a key of another task (lang_input on a text-classification model) is the only leftover
C5_Witness ==
    /\ ValidationDone
    /\ ResolvedTask = "text-classification"
    /\ ret.out = NotExpected({"lang_input"})

TaskMismatchError == Raise("Exception", "Task mismatch for model", NoKeys)

\* C6 as stated: after a successful create_validation the model is tagged pytorch
\* and args['task'] is the model's pipeline tag, one of the six supported tasks; an
\* omitted task is filled in with the tag, and a supplied task that differs from
\* the tag is always rejected with 'Task mismatch' and never overwritten.
C6_AsStated ==
    (ValidationDone /\ "model_name" \in DOMAIN GivenArgs /\ OnHub(GivenArgs["model_name"])) =>
        LET tag == HubPipelineTag(GivenArgs["model_name"]) IN
        /\ ret.out.status = "ok" =>
              /\ HubPytorch(GivenArgs["model_name"])
              /\ tag \in SixTasks
              /\ "task" \in DOMAIN ret.args /\ ret.args["task"] = tag
        /\ ("task" \in DOMAIN GivenArgs /\ GivenArgs["task"] # tag) =>
              /\ ret.out = TaskMismatchError
              /\ ret.args["task"] = GivenArgs["task"]

\* C6 amended: as C6, except that a supplied task that differs from the tag is
\* always rejected and never overwritten, with 'Task mismatch' when the model is
\* tagged pytorch and its pipeline tag is one of the six tasks (otherwise the
\* pytorch or the unsupported-task error is raised first).
C6_TaskIsPipelineTag ==
    (ValidationDone /\ "model_name" \in DOMAIN GivenArgs /\ OnHub(GivenArgs["model_name"])) =>
        LET tag == HubPipelineTag(GivenArgs["model_name"]) IN
        /\ ret.out.status = "ok" =>
              /\ HubPytorch(GivenArgs["model_name"])
              /\ tag \in SixTasks
              /\ "task" \in DOMAIN ret.args /\ ret.args["task"] = tag
        /\ ("task" \in DOMAIN GivenArgs /\ GivenArgs["task"] # tag) =>
              /\ ret.out.status = "raise"
              /\ ret.args["task"] = GivenArgs["task"]
              /\ (HubPytorch(GivenArgs["model_name"]) /\ tag \in SixTasks)
                    => ret.out = TaskMismatchError

\* a task that differs from the pipeline tag of a pytorch model is rejected
C6_Witness ==
    /\ ValidationDone
    /\ ret.out = TaskMismatchError
    /\ GivenArgs["task"] = "translation"
    /\ GivenArgs["model_name"] = "m-cls"

\* an omitted task is filled in and validation succeeds
C6_WitnessFilled ==
    /\ ValidationDone
    /\ ret.out.status = "ok"
    /\ "task" \notin DOMAIN GivenArgs
    /\ ret.args["task"] = "summarization"

\* the essential keys the args lack when the call ends
MissingEssential == {"task", "model_name", "input_column"} \ DOMAIN ret.args

\* C8: whenever the args lack task (and it was not filled in), model_name or
\* input_column, create_validation fails with 'Parameter "<key>" is required'
\* naming a missing key.  (Stated for the args on which no hub or task check can
\* fail first: model_name absent, or the hub checks passing.)
C8_AsStated ==
    (/\ ValidationDone
     /\ MissingEssential # {}
     /\ "model_name" \in DOMAIN GivenArgs => HubChecksPass) =>
        \E k \in MissingEssential :
            ret.out = Raise("Exception", "Parameter \"{key}\" is required", {k})

\* the part of C8 the code keeps: a missing input_column is reported by name
C8_InputColumn ==
    (ValidationDone /\ HubChecksPass /\ "input_column" \notin DOMAIN GivenArgs) =>
        ret.out = Raise("Exception", "Parameter \"{key}\" is required", {"input_column"})

----------------------------------------------------------------------------
(* Claims about create, predict and describe (specification Spec) *)

Count(t, x) == Cardinality({i \in DOMAIN t : t[i] = x})

Index(t, x) == CHOOSE i \in DOMAIN t : t[i] = x

\* what holds of a create call when it has ended
CreateOrder ==
    LET t == ret.trace
        failed == call.env.local = "OSError"
                  /\ (call.env.download = "error" \/ call.env.save = "error")
    IN
    \* the local load comes first
    /\ Len(t) >= 2 /\ t[1] = "folder_get" /\ t[2] = "pipeline_local"
    \* download and save only after an OSError of the local load
    /\ ("pipeline_download" \in Range(t)) = (call.env.local = "OSError")
    /\ "save_pretrained" \in Range(t) =>
          /\ "pipeline_download" \in Range(t)
          /\ Index(t, "pipeline_local") < Index(t, "pipeline_download")
          /\ Index(t, "pipeline_download") < Index(t, "save_pretrained")
    \* a failed download or save: create raises, nothing written, nothing synced
    /\ failed =>
          /\ ret.out.status = "raise"
          /\ "json_set" \notin Range(t) /\ "folder_sync" \notin Range(t)
    \* success: written once, synced once, in that order
    /\ ret.out.status = "ok" =>
          /\ Count(t, "json_set") = 1 /\ Count(t, "folder_sync") = 1
          /\ Index(t, "json_set") < Index(t, "folder_sync")
          /\ "args" \in DOMAIN model_storage /\ model_storage["args"] = ret.args
          /\ ret.args["model_name"] \in synced

\* C4: create first tries the local load and downloads and saves only when that
\* raises OSError; when the download or save fails create raises and neither
\* writes the args nor syncs the folder (model storage and the synced folders
\* stay as they were); when it succeeds the args are written before the folder is
\* synced, each exactly once.
C4_CreateOrder ==
    [][call'.op = "create" =>
          /\ CreateOrder'
          /\ ret'.out.status = "raise" => (model_storage' = model_storage /\ synced' = synced)]_vars

\* a create that found no local copy, downloaded, saved and succeeded
C4_Witness ==
    /\ call.op = "create"
    /\ ret.out.status = "ok"
    /\ ret.trace = <<"folder_get", "pipeline_local", "pipeline_download", "save_pretrained",
                     "json_set", "folder_sync">>

\* a create whose save failed
C4_WitnessFailed ==
    /\ call.op = "create"
    /\ call.env.save = "error"
    /\ ret.out = DownloadError

\* the keys create derives
DerivedKeys == {"target", "task_proper", "labels_map"}

\* C7: after a successful create, describe('args') returns exactly the key/value
\* pairs create persisted (the user's args plus target, task_proper, labels_map
\* and a derived max_length when the user gave none), and describe with an
\* attribute other than 'args' and 'metadata' returns the table list.
C7_DescribeArgs ==
    /\ (call.op = "create" /\ ret.out.status = "ok") =>
          LET user == Unwrap(call.args)
              stored == model_storage["args"]
          IN
          /\ \A k \in DOMAIN user : k \in DOMAIN stored /\ stored[k] = user[k]
          /\ DerivedKeys \subseteq DOMAIN stored
          /\ (DOMAIN stored) \ (DOMAIN user) \subseteq DerivedKeys \cup {"max_length"}
          /\ stored["target"] = call.target
    /\ (call.op = "describe" /\ call.attribute = "args") =>
          LET stored == model_storage["args"] IN
          /\ \A k \in DOMAIN stored : <<k, stored[k]>> \in ret.table
          /\ Cardinality(ret.table) = Cardinality(DOMAIN stored)
    /\ (call.op = "describe" /\ call.attribute \notin {"args", "metadata"}) =>
          ret.table = {<<"tables", "args">>, <<"tables", "metadata">>}

\* describe('args') on a model created with user labels and a derived max_length
C7_Witness ==
    /\ call.op = "describe"
    /\ call.attribute = "args"
    /\ <<"labels", UserLabels>> \in ret.table
    /\ <<"max_length", 512>> \in ret.table
    /\ <<"target", "sentiment">> \in ret.table

\* C10: predict and describe leave the stored state as it is, whether they
\* return or raise; predict works on the stored args overridden by the
\* predict_params of that call only, so without predict_params it works on the
\* stored args.
C10_ReadOnly ==
    [][call'.op \in {"predict", "describe"} =>
          /\ model_storage' = model_storage
          /\ engine_folder' = engine_folder
          /\ synced' = synced
          /\ call'.op = "predict" =>
                LET stored == model_storage["args"] IN
                /\ DOMAIN ret'.args = (DOMAIN stored) \cup (DOMAIN call'.args)
                /\ \A k \in DOMAIN call'.args : ret'.args[k] = call'.args[k]
                /\ \A k \in (DOMAIN stored) \ (DOMAIN call'.args) : ret'.args[k] = stored[k]]_vars

\* a predict whose predict_params carried a batch_size: the call worked with it,
\* the stored args hold none
C10_Witness ==
    /\ call.op = "predict"
    /\ call.args = [batch_size |-> 2]
    /\ ret.args["batch_size"] = 2
    /\ ret.out.status = "ok"
    /\ "batch_size" \notin DOMAIN model_storage["args"]

\* a predict without predict_params that raised: it worked on the stored args
C10_WitnessRaised ==
    /\ call.op = "predict"
    /\ call.args = EmptyDict
    /\ ret.out.status = "raise"
    /\ ret.args = model_storage["args"]

\* predict reached the inference branches: the task is dispatched and the column found
Inferring ==
    /\ call.op = "predict"
    /\ ret.args["task"] \in fnc_list
    /\ ret.args["input_column"] \in call.columns

\* C1: with the default batch size of 1, when inference on a row raises, that
\* row's result is an 'error' entry holding the message, every other row is still
\* processed, and predict returns the frame instead of raising.  (In the per-row
\* branch the call of fnc raises for every row.)
C1_AsStated ==
    (Inferring /\ BatchSize(ret.args) = 1) =>
        /\ ret.out.status = "ok"
        /\ Len(ret.rows) = Len(call.items)
        /\ \A i \in DOMAIN ret.rows : ret.rows[i] = [error |-> <<"name 'fnc' is not defined">>]

\* C2: for a task of the dispatch table and a frame holding the input column,
\* predict returns one result row per input row, in input order, on the per-row
\* and on the batched path, a failed batched call giving every row the same error.
C2_AsStated ==
    Inferring =>
        /\ ret.out.status = "ok"
        /\ Len(ret.rows) = Len(call.items)
        /\ call.env.batch = "error" =>
              \A i, j \in DOMAIN ret.rows :
                  ret.rows[i] = ret.rows[j] /\ DOMAIN ret.rows[i] = {"error"}

\* the part of C2 the code keeps: the batched path
C2_Batched ==
    (Inferring /\ BatchSize(ret.args) > 1) =>
        /\ ret.out.status = "ok"
        /\ Len(ret.rows) = Len(call.items)
        /\ call.env.batch = "ok" =>
              \A i \in DOMAIN ret.rows : ret.rows[i] = RawOutput(ret.args, call.items[i])
        /\ call.env.batch = "error" =>
              \A i \in DOMAIN ret.rows : ret.rows[i] = [error |-> ErrorMsg(call.env.e)]

\* C3: every task create_validation accepts has a predictor in the dispatch
\* table, so a predict on a model that was validated and created (its
\* predict_params not touching the task) never fails with 'Unknown task'.
C3_AsStated ==
    (call.op = "predict" /\ "task" \notin DOMAIN call.args) => ret.out.msg # "Unknown task"

\* the part of C9 about create: the keys of labels_map are the default label
\* names; with user labels the label of id n maps to labels[n], else to itself
C9_LabelsMap ==
    (call.op = "create" /\ ret.out.status = "ok") =>
        LET stored == model_storage["args"]
            default == Id2Label(stored["model_name"])
        IN
        /\ DOMAIN stored["labels_map"] = Range(default)
        /\ \A n \in DOMAIN default :
              stored["labels_map"][default[n]] =
                  IF "labels" \in DOMAIN stored THEN stored["labels"][n] ELSE default[n]

\* C9: after a successful create labels_map is as C9_LabelsMap says, and a
\* text-classification prediction reports as the target value the labels_map
\* image of the top-ranked label: every result row of predict that is no error
\* entry holds it under the target.
C9_AsStated ==
    /\ C9_LabelsMap
    /\ (call.op = "predict" /\ ret.out.status = "ok"
        /\ ret.args["task"] = "text-classification") =>
          \A i \in DOMAIN ret.rows :
              "error" \notin DOMAIN ret.rows[i] =>
                  /\ ret.args["target"] \in DOMAIN ret.rows[i]
                  /\ ret.rows[i][ret.args["target"]] =
                        predict_text_classification(call.items[i], ret.args)[ret.args["target"]]

====
